---- MODULE Spec2Model ----
(***************************************************************************)
(* The-Watcher: the poll loop of app.py (background_monitor), the request  *)
(* handlers that share current_state with it under state_lock, and the     *)
(* broker boundary of monitor.py (fetch_active_orders, place_order).       *)
(***************************************************************************)
EXTENDS Integers, Sequences, FiniteSets, TLC

\* ------------------------------------------------------------------ bounds
\* poll iterations started plus requests accepted, in a run of Spec
MaxEvents == 4
\* requests accepted in a run of SpecHandlers
MaxRequests == 3
\* poll iterations in a run of SpecHistory
MaxAppends == 150
\* poll iterations started plus reads accepted, in a run of SpecLoop
MaxLoopEvents == 4
\* poll iterations in a run of SpecPlace
MaxPlaceCycles == 3
\* poll iterations started plus requests accepted, in a run of SpecUpdate
MaxUpdateEvents == 4
\* poll iterations started plus requests accepted, in a run of SpecLock
MaxLockEvents == 3
\* iterations of monitor_orders_loop in a run of SpecStandalone
MaxStandaloneCycles == 3

\* ------------------------------------------------------- program constants
HistoryLimit == 100
PauseAuth == 60
PauseGeneral == 15
PauseConnection == 30
PauseUnexpected == 10
PauseNormal == 1

ACTIVE_STATUSES == {"WORKING", "ACCEPTED", "PENDING_ACTIVATION", "QUEUED", "AWAITING_PARENT_ORDER"}

\* ------------------------------------------------------------ value domains
\* orderId as the broker reports it (a number); NoId stands for a missing one
NoId == -1
OrderIds == {1, 2}
\* str(order_id)
IdStr(n) == IF n = 1 THEN "1" ELSE IF n = 2 THEN "2" ELSE "None"
\* the identifiers the dashboard sends stop/toggle requests for
RequestIds == {"1"}

Handlers == {"h1", "h2"}
\* the handler thread that serves the requests while the poll loop runs
LoopHandlers == {"h1"}
MonitorThread == "SchwabMonitorThread"

\* order documents the broker can report; symbol is the top-level instrument
\* symbol, legs the orderLegCollection (each leg reduced to its instrument
\* symbol), assetType the assetType of the first leg's instrument
DocSpx == [orderId |-> 1, status |-> "WORKING", symbol |-> "", legs |-> <<"SPX241220C05000000">>,
           assetType |-> "OPTION"]
DocAapl == [orderId |-> 2, status |-> "queued", symbol |-> "AAPL", legs |-> <<>>, assetType |-> ""]
DocAaplFilled == [orderId |-> 2, status |-> "FILLED", symbol |-> "AAPL", legs |-> <<>>,
                  assetType |-> ""]
\* order 1 as the broker reports it after its status changed
DocSpxAccepted == [orderId |-> 1, status |-> "ACCEPTED", symbol |-> "",
                   legs |-> <<"SPX241220C05000000">>, assetType |-> "OPTION"]
DocSpy == [orderId |-> 2, status |-> "WORKING", symbol |-> "", legs |-> <<"SPY">>,
           assetType |-> "COLLECTIVE_INVESTMENT"]

\* the bodies get_orders_for_account can answer with: at most one document per orderId
BrokerOrderLists ==
  { <<>>, <<DocSpx>>, <<DocAapl>>, <<DocAaplFilled>>, <<DocSpx, DocAapl>>, <<DocSpx, DocAaplFilled>> }

FetchExceptions == {"AccessTokenError", "GeneralError", "ConnectionError", "Exception"}

\* what the broker can do with a fetch: raise, answer non-success, answer a list
FetchOutcomes ==
  { [kind |-> "raise", exc |-> e, orders |-> <<>>] : e \in FetchExceptions }
  \cup { [kind |-> "non_success", exc |-> "", orders |-> <<>>] }
  \cup { [kind |-> "ok", exc |-> "", orders |-> l] : l \in BrokerOrderLists }

QuietFetchOutcomes == { [kind |-> "ok", exc |-> "", orders |-> <<>>] }

\* the fetches of SpecLoop and SpecPlace: two orders that place_order can send
\* to the broker
LoopFetchOutcomes ==
  { [kind |-> "raise", exc |-> e, orders |-> <<>>] : e \in FetchExceptions }
  \cup { [kind |-> "non_success", exc |-> "", orders |-> <<>>] }
  \cup { [kind |-> "ok", exc |-> "", orders |-> l] : l \in { <<>>, <<DocSpx, DocSpy>> } }

\* the fetches of SpecUpdate: order 1 absent, reported, reported with another status
UpdateFetchOutcomes ==
  { [kind |-> "ok", exc |-> "", orders |-> l] : l \in { <<>>, <<DocSpx>>, <<DocSpxAccepted>> } }

\* what the broker can answer to a placement request
BrokerPlaceResponses ==
  { [status_code |-> 201, body |-> "empty"], [status_code |-> 400, body |-> "json_object"] }

\* the placement answers of SpecPlace: statuses inside and outside (200, 201),
\* bodies that are empty, not JSON, a JSON object, or JSON of another type
AllPlaceResponses ==
  { [status_code |-> c, body |-> b] :
      c \in {201, 204, 400}, b \in {"empty", "not_json", "json_object", "json_other"} }

NetLiqValues == {7}

\* an order whose first leg has an instrument without symbol
DocBlankLeg == [orderId |-> 2, status |-> "WORKING", symbol |-> "", legs |-> <<"">>,
                assetType |-> ""]

\* the fetches of SpecStandalone: a raised exception, a non-success answer, and
\* lists with orders place_order can send, an order with an empty
\* orderLegCollection, one with a blank first leg, and the same orderId twice
StandaloneFetchOutcomes ==
  { [kind |-> "raise", exc |-> "ConnectionError", orders |-> <<>>],
    [kind |-> "non_success", exc |-> "", orders |-> <<>>] }
  \cup { [kind |-> "ok", exc |-> "", orders |-> l] :
           l \in { <<>>, <<DocSpx>>, <<DocSpx, DocSpy>>, <<DocSpx, DocAapl>>,
                   <<DocSpx, DocBlankLeg>>, <<DocSpx, DocSpxAccepted>> } }

\* ------------------------------------------------------------------ helpers
Min(a, b) == IF a < b THEN a ELSE b

Range(s) == { s[i] : i \in DOMAIN s }

\* the last n elements of s, in order
LastN(s, n) == IF Len(s) <= n THEN s ELSE SubSeq(s, Len(s) - n + 1, Len(s))

\* all orderings of a finite set
SeqsOf(S) ==
  { s \in [1..Cardinality(S) -> S] : \A i, j \in 1..Cardinality(S) : i /= j => s[i] /= s[j] }

\* ------------------------------------------------- pure functions of app.py
\* str.upper() on the status strings the broker sends
Upper(s) == IF s = "queued" THEN "QUEUED" ELSE s

\* get_order_symbol: top-level instrument symbol first, then the first leg's; "" is None
get_order_symbol(order) ==
  IF order.symbol /= "" THEN order.symbol
  ELSE IF Len(order.legs) > 0 THEN order.legs[1] ELSE ""

\* variants of is_order_monitored with a plausible slip: the decision inverted,
\* the ignore set never consulted, the commented-out symbol check switched on
is_order_monitored_inverted(order_id, symbol, ignored_orders_set, ignored_symbols_set) ==
  IF order_id = "None" THEN TRUE
  ELSE IF order_id \in ignored_orders_set THEN TRUE
  ELSE FALSE

is_order_monitored_always(order_id, symbol, ignored_orders_set, ignored_symbols_set) == TRUE

is_order_monitored_by_symbol(order_id, symbol, ignored_orders_set, ignored_symbols_set) ==
  IF order_id = "None" THEN TRUE
  ELSE IF order_id \in ignored_orders_set THEN FALSE
  ELSE IF symbol /= "" /\ symbol \in ignored_symbols_set THEN FALSE
  ELSE TRUE

\* is_order_monitored: identifier-only lookup, the symbol arguments are unused
is_order_monitored(order_id, symbol, ignored_orders_set, ignored_symbols_set) ==
  IF order_id = "None" THEN TRUE
  ELSE IF order_id \in ignored_orders_set THEN FALSE
  ELSE TRUE

\* the identifier is_order_monitored sees for an order of a list
OrderIdStr(order) == IF order.orderId = NoId THEN "None" ELSE IdStr(order.orderId)

\* the fields of an order document as the broker sent them
FetchedFields(order) ==
  [orderId |-> order.orderId, status |-> order.status, symbol |-> order.symbol,
   legs |-> order.legs, assetType |-> order.assetType]

\* an order document carrying the isMonitored key
WithFlag(order, flag) ==
  [orderId |-> order.orderId, status |-> order.status, symbol |-> order.symbol,
   legs |-> order.legs, assetType |-> order.assetType, isMonitored |-> flag]

\* update_monitoring_status_in_orders: sets isMonitored on every order of the list
update_monitoring_status_in_orders(orders_list, ignored_orders_set, ignored_symbols_set) ==
  [ i \in DOMAIN orders_list |->
      WithFlag(orders_list[i],
               is_order_monitored(OrderIdStr(orders_list[i]), get_order_symbol(orders_list[i]),
                                  ignored_orders_set, ignored_symbols_set)) ]

\* a variant that misses the key and falls back to the default of .get
ReadIgnoreDefault(state) == {}

\* the copy of the ignore set that the poll cycle takes under the lock
ReadIgnore(state) == state.ignored_orders

\* the set differences of one poll cycle
DisappearedIdsSwapped(current_tracked_ids, latest_order_ids) == latest_order_ids \ current_tracked_ids

DisappearedIds(current_tracked_ids, latest_order_ids) == current_tracked_ids \ latest_order_ids

NewIds(current_tracked_ids, latest_order_ids) == latest_order_ids \ current_tracked_ids

\* latest_order_ids: the string identifiers of the orders with a truthy orderId
LatestOrderIds(active_orders_list) ==
  { IdStr(active_orders_list[i].orderId) :
      i \in { j \in DOMAIN active_orders_list : active_orders_list[j].orderId /= NoId } }

\* the order a list holds for an identifier (the last one wins, as in the update loop)
OrderOf(active_orders_list, id) ==
  LET idx == { i \in DOMAIN active_orders_list :
                 active_orders_list[i].orderId /= NoId /\ IdStr(active_orders_list[i].orderId) = id }
  IN active_orders_list[CHOOSE i \in idx : \A j \in idx : j <= i]

\* a variant that adds the new orders and keeps the stored entry of a known one
UpdateTrackedNewOnly(popped, orders_list) ==
  [ id \in DOMAIN popped \cup LatestOrderIds(orders_list) |->
      IF id \in DOMAIN popped THEN popped[id] ELSE OrderOf(orders_list, id) ]

\* the update loop: tracked_orders[str(orderId)] = order for every order of the
\* fetched list with an orderId, the other entries stay
UpdateTracked(popped, orders_list) ==
  [ id \in DOMAIN popped \cup LatestOrderIds(orders_list) |->
      IF id \in LatestOrderIds(orders_list) THEN OrderOf(orders_list, id) ELSE popped[id] ]

\* a variant without the eviction of the ignored orders
KeptIdsAll(tracked, ignored_orders_set, ignored_symbols_set) == DOMAIN tracked

\* the identifiers left in tracked_orders by the loop that pops every order
\* that is not monitored
KeptIds(tracked, ignored_orders_set, ignored_symbols_set) ==
  { id \in DOMAIN tracked :
      is_order_monitored(id, get_order_symbol(tracked[id]), ignored_orders_set, ignored_symbols_set) }

\* a variant that flips membership instead of adding
AddIgnoreFlip(ignored_orders, order_id_str) ==
  IF order_id_str \notin ignored_orders THEN ignored_orders \cup {order_id_str}
  ELSE ignored_orders \ {order_id_str}

\* stop_order_monitoring's mutation of the ignore set
AddIgnore(ignored_orders, order_id_str) ==
  IF order_id_str \notin ignored_orders THEN ignored_orders \cup {order_id_str} ELSE ignored_orders

\* a variant that never removes an identifier
ToggleIgnoreNoResume(ignored_orders, order_id_str, should_monitor) ==
  IF ~should_monitor /\ order_id_str \notin ignored_orders THEN ignored_orders \cup {order_id_str}
  ELSE ignored_orders

\* toggle_order_monitoring's mutation of the ignore set
ToggleIgnore(ignored_orders, order_id_str, should_monitor) ==
  IF should_monitor /\ order_id_str \in ignored_orders THEN ignored_orders \ {order_id_str}
  ELSE IF ~should_monitor /\ order_id_str \notin ignored_orders THEN ignored_orders \cup {order_id_str}
  ELSE ignored_orders

\* a variant that keeps the first HistoryLimit entries
AppendHistoryKeepOldest(net_liq_history, entry) ==
  LET appended_list == Append(net_liq_history, entry)
  IN IF Len(appended_list) > HistoryLimit
       THEN SubSeq(appended_list, 1, HistoryLimit)
       ELSE appended_list

\* the history append of the publish step: append, then keep the last HistoryLimit
AppendHistory(net_liq_history, entry) ==
  LET appended_list == Append(net_liq_history, entry)
  IN IF Len(appended_list) > HistoryLimit
       THEN SubSeq(appended_list, Len(appended_list) - HistoryLimit + 1, Len(appended_list))
       ELSE appended_list

\* a variant that counts a failed placement too
RecreatedCountAfterAnyCall(count, placed) == count + 1

\* orders_recreated_count after a place_order call that returned placed
RecreatedCountAfter(count, placed) == IF placed THEN count + 1 ELSE count

\* a variant that leaves the counter write to the next publish step
AfterPlaceBatched(placed) == "recreate"

\* where the recreation loop goes after a place_order call: a successful one
\* takes the lock to write the counter before the next order of the queue
AfterPlace(placed) == IF placed THEN "count_lock" ELSE "recreate"

\* a variant that saves after every request
AfterMutationAlwaysSaves(needs_save_now) == "save_lock"

\* where stop and toggle go after their locked block: save_ignored_items if
\* needs_save was set, the response otherwise
AfterMutation(needs_save_now) == IF needs_save_now THEN "save_lock" ELSE "respond"

\* a variant in which an unclassified exception escapes the loop's try
ExceptTargetEscapes(exc) == IF exc = "Exception" THEN "crit_lock" ELSE "loop_top"

\* where the monitor thread goes after an exception inside the loop's try: each
\* of the four except clauses sleeps and falls through to the next iteration
ExceptTarget(exc) == "loop_top"

\* a variant with the pauses of two except clauses exchanged
PauseAfterExchanged(exc) ==
  IF exc = "AccessTokenError" THEN PauseAuth
  ELSE IF exc = "GeneralError" THEN PauseConnection
  ELSE IF exc = "ConnectionError" THEN PauseGeneral
  ELSE PauseUnexpected

\* the pause the loop takes after an exception of the given class
PauseAfter(exc) ==
  IF exc = "AccessTokenError" THEN PauseAuth
  ELSE IF exc = "GeneralError" THEN PauseGeneral
  ELSE IF exc = "ConnectionError" THEN PauseConnection
  ELSE PauseUnexpected

\* --------------------------------------------- pure functions of monitor.py
\* a variant that returns the broker's list unfiltered
fetch_active_orders_unfiltered(outcome) ==
  IF outcome.kind = "non_success" THEN <<>> ELSE outcome.orders

\* fetch_active_orders: a non-success answer becomes the empty list; a list is
\* filtered to the orders whose upper-cased status is an active one
fetch_active_orders(outcome) ==
  IF outcome.kind = "non_success" THEN <<>>
  ELSE SelectSeq(outcome.orders, LAMBDA order : Upper(order.status) \in ACTIVE_STATUSES)

\* a variant that falls back to the top-level instrument, as get_order_symbol does
extract_order_info_with_fallback(order_details) ==
  IF Len(order_details.legs) = 0
    THEN [raised |-> FALSE, symbol |-> order_details.symbol, asset_type |-> ""]
  ELSE [raised |-> FALSE, symbol |-> order_details.legs[1],
        asset_type |-> order_details.assetType]

\* extract_order_info: the first leg's instrument symbol and asset type;
\* indexing an empty orderLegCollection raises
extract_order_info(order_details) ==
  IF Len(order_details.legs) = 0 THEN [raised |-> TRUE, symbol |-> "", asset_type |-> ""]
  ELSE [raised |-> FALSE, symbol |-> order_details.legs[1],
        asset_type |-> order_details.assetType]

\* the characters of the instrument symbols of the model
Chars(symbol) ==
  CASE symbol = "" -> <<>>
    [] symbol = "SPY" -> <<"S", "P", "Y">>
    [] symbol = "AAPL" -> <<"A", "A", "P", "L">>
    [] symbol = "BRK.B" -> <<"B", "R", "K", ".", "B">>
    [] symbol = "3M" -> <<"3", "M">>
    [] symbol = "SPX241220C05000000" ->
         <<"S", "P", "X", "2", "4", "1", "2", "2", "0", "C", "0", "5", "0", "0", "0", "0", "0", "0">>

\* char.isdigit()
IsDigit(char) == char \in {"0", "1", "2", "3", "4", "5", "6", "7", "8", "9"}

\* any(char.isdigit() for char in symbol)
RECURSIVE AnyDigit(_)
AnyDigit(chars) ==
  IF chars = <<>> THEN FALSE
  ELSE IF IsDigit(Head(chars)) THEN TRUE
  ELSE AnyDigit(Tail(chars))

\* a variant that looks at the first character only
detect_asset_type_leading_digit(symbol) ==
  IF symbol = "" THEN "EQUITY"
  ELSE IF IsDigit(Head(Chars(symbol))) THEN "OPTION" ELSE "EQUITY"

\* detect_asset_type: EQUITY for a falsy symbol, OPTION if any character is a digit
detect_asset_type(symbol) ==
  IF symbol = "" THEN "EQUITY"
  ELSE IF AnyDigit(Chars(symbol)) THEN "OPTION" ELSE "EQUITY"

\* place_order: whether a request reaches the broker, the instrument of the
\* request, and the boolean returned
place_order(order_details, response) ==
  LET order_info == extract_order_info(order_details)
  IN IF order_info.raised \/ order_info.symbol = ""
       THEN [called |-> FALSE, ok |-> FALSE, symbol |-> "", assetType |-> ""]
       ELSE [called |-> TRUE,
             ok |-> response.status_code \in {200, 201} /\ response.body /= "json_other",
             symbol |-> order_info.symbol,
             assetType |-> detect_asset_type(order_info.symbol)]

\* a variant that keeps what it finds in a file it cannot parse
load_ignored_items_lenient(file) ==
  [orders |-> file.orders, symbols |-> file.symbols, raised |-> FALSE]

\* load_ignored_items: the sets it leaves and whether an exception leaves it.
\* A missing file sets both to the empty set; a failing open or json.load is
\* caught and leaves the module-level sets, which are empty at that point
load_ignored_items(file) ==
  IF file.fault = "missing" THEN [orders |-> {}, symbols |-> {}, raised |-> FALSE]
  ELSE IF file.fault \in {"unreadable", "corrupt"} THEN [orders |-> {}, symbols |-> {}, raised |-> FALSE]
  ELSE [orders |-> file.orders, symbols |-> file.symbols, raised |-> FALSE]

\* the ignored_items.json files the process can find at start
InitialFiles ==
  { [valid |-> FALSE, fault |-> "missing", orders |-> {}, symbols |-> {}],
    [valid |-> TRUE, fault |-> "none", orders |-> {"1"}, symbols |-> {"AAPL"}] }

\* the same, with the files that exist but cannot be opened or parsed
StartupFiles ==
  InitialFiles
  \cup { [valid |-> FALSE, fault |-> f, orders |-> {"1"}, symbols |-> {"AAPL"}] :
           f \in {"unreadable", "corrupt"} }

\* -------------------------------------------------------------------- state
VARIABLES
  current_state,            \* the shared record of app.py
  ignored_symbols,          \* the global set of ignored symbols
  state_lock,               \* "free" or the thread holding state_lock
  ignored_items_file,       \* ignored_items.json
  mpc,                      \* where the monitor thread is
  cycle,                    \* number of loop iterations started; also the clock of the timestamps
  tracked_orders,           \* background_monitor's tracked_orders
  tracked_published,        \* the tracked dicts are the dicts of current_state's active_orders
  orders_recreated_count,   \* background_monitor's counter
  active_orders_list,       \* locals of the current iteration
  latest_order_ids,
  local_ignored_orders,
  current_tracked_ids,
  disappeared_order_ids,
  new_order_ids,
  orders_to_recreate,
  recreate_idx,
  net_liq,
  pause,                    \* the argument of the last time.sleep of the loop
  fetch_answer,             \* how the broker answered the fetch of this iteration
  raised,                   \* class of the exception that ended this iteration, "" if none
  place_calls,              \* the place_order calls of this iteration, in order
  prev_failed,              \* identifiers whose placement failed in the previous iteration
  prev_fetched,             \* identifiers of the previous fetch that returned a list
  cycle_start,              \* tracked orders and published counter when the iteration began
  appended,                 \* every pair ever appended to net_liq_history, in order
  hpc,                      \* where each request handler is
  hreq,                     \* the request each handler serves
  needs_save,
  current_monitoring_status,
  ignored_orders_list,      \* save_ignored_items' copy of the set
  state_copy,               \* get_orders' copy of current_state as the handler sees it now,
                            \* with the lists as they were when it released the lock
  nreq                      \* requests started so far

monitor_vars ==
  << mpc, cycle, tracked_orders, tracked_published, orders_recreated_count, active_orders_list,
     latest_order_ids,
     local_ignored_orders, current_tracked_ids, disappeared_order_ids, new_order_ids,
     orders_to_recreate, recreate_idx, net_liq, pause, fetch_answer, raised, place_calls,
     prev_failed, prev_fetched, cycle_start, appended >>

cycle_locals ==
  << active_orders_list, latest_order_ids, local_ignored_orders, current_tracked_ids,
     disappeared_order_ids, new_order_ids, orders_to_recreate, recreate_idx, net_liq >>

handler_vars ==
  << hpc, hreq, needs_save, current_monitoring_status, ignored_orders_list, nreq >>

\* monitor.py run on its own: monitor_orders_loop
VARIABLES
  spc,                      \* where monitor_orders_loop is
  order_by_id,              \* the items of the dict of tracked orders, in insertion order
  latest_orders,            \* the list of the latest fetch
  items,                    \* what is left of list(order_by_id.items()) in the for loop
  loop_calls,               \* the place_order calls of this iteration
  loop_cycle,               \* iterations of the while loop started
  loop_raised,              \* the exception that ended the function, "" if none
  tracked_before            \* the keys of order_by_id when the iteration began

standalone_vars ==
  << spc, order_by_id, latest_orders, items, loop_calls, loop_cycle, loop_raised, tracked_before >>

app_vars ==
  << current_state, ignored_symbols, state_lock, ignored_items_file, monitor_vars,
     handler_vars, state_copy >>

vars == << app_vars, standalone_vars >>

NoRequest == [op |-> "none", order_id |-> "", monitor |-> FALSE]
NoCopy == [held |-> FALSE, active_orders |-> <<>>, orders_aliased |-> FALSE,
           net_liq_history |-> <<>>, history_aliased |-> FALSE, orders_recreated |-> 0,
           last_updated |-> 0, monitoring_active |-> FALSE, ignored_orders |-> {},
           locked_orders |-> <<>>, locked_history |-> <<>>]

\* a variant that starts from the orders of an earlier run
InitialTrackedFromCache == [ id \in {"1"} |-> DocSpx ]

\* tracked_orders = {} at the start of background_monitor
InitialTracked == << >>

\* the module-level current_state after load_ignored_items, before the monitor thread runs
InitWith(file) ==
  /\ ignored_items_file = file
  /\ current_state = [active_orders |-> <<>>, monitoring_active |-> FALSE, last_updated |-> 0,
                      orders_recreated |-> 0, positions |-> 0, net_liq_history |-> <<>>,
                      ignored_orders |-> load_ignored_items(file).orders]
  /\ ignored_symbols = load_ignored_items(file).symbols
  /\ state_lock = "free"
  /\ mpc = IF load_ignored_items(file).raised THEN "not_started" ELSE "start"
  /\ cycle = 0
  /\ tracked_orders = InitialTracked
  /\ tracked_published = FALSE
  /\ orders_recreated_count = 0
  /\ active_orders_list = <<>>
  /\ latest_order_ids = {}
  /\ local_ignored_orders = {}
  /\ current_tracked_ids = {}
  /\ disappeared_order_ids = {}
  /\ new_order_ids = {}
  /\ orders_to_recreate = <<>>
  /\ recreate_idx = 1
  /\ net_liq = 0
  /\ pause = 0
  /\ fetch_answer = "none"
  /\ raised = ""
  /\ place_calls = <<>>
  /\ prev_failed = {}
  /\ prev_fetched = {}
  /\ cycle_start = [tracked |-> {}, recreated |-> 0, stored |-> << >>]
  /\ appended = <<>>
  /\ hpc = [h \in Handlers |-> "idle"]
  /\ hreq = [h \in Handlers |-> NoRequest]
  /\ needs_save = [h \in Handlers |-> FALSE]
  /\ current_monitoring_status = [h \in Handlers |-> FALSE]
  /\ ignored_orders_list = [h \in Handlers |-> {}]
  /\ state_copy = [h \in Handlers |-> NoCopy]
  /\ nreq = 0
  /\ spc = "start"
  /\ order_by_id = <<>>
  /\ latest_orders = <<>>
  /\ items = <<>>
  /\ loop_calls = <<>>
  /\ loop_cycle = 0
  /\ loop_raised = ""
  /\ tracked_before = {}

Init == \E file \in InitialFiles : InitWith(file)

\* what tracked_orders holds after isMonitored was written on the orders of
\* the published list: the tracked dicts are dicts of that list once the
\* cycle that fetched them has published
SharedTrackedView(tracked, shared, orders_list) ==
  IF shared THEN [ id \in DOMAIN tracked |-> OrderOf(orders_list, id) ] ELSE tracked

\* the monitor thread's variables that no request handler can reach
monitor_own_vars ==
  << mpc, cycle, tracked_published, orders_recreated_count, active_orders_list, latest_order_ids,
     local_ignored_orders, current_tracked_ids, disappeared_order_ids, new_order_ids,
     orders_to_recreate, recreate_idx, net_liq, pause, fetch_answer, raised, place_calls,
     prev_failed, prev_fetched, cycle_start, appended >>

\* ------------------------------------------------------- the monitor thread
\* the critical section a thread enters from each place it waits for state_lock
CriticalSection(at) ==
  CASE at = "init_lock" -> "init_cs"
    [] at = "crit_lock" -> "crit_cs"
    [] at = "ignore_lock" -> "ignore_cs"
    [] at = "publish_lock" -> "publish_cs"
    [] at = "count_lock" -> "count_cs"
    [] at = "save_lock" -> "save_cs"
    [] OTHER -> "none"

\* get_schwab_client and get_account_hash: either may raise
MonInit(ok) ==
  /\ mpc = "start"
  /\ mpc' = IF ok THEN "init_lock" ELSE "crit_lock"
  /\ UNCHANGED << current_state, ignored_symbols, state_lock, ignored_items_file, cycle,
                  tracked_orders, tracked_published,
                  orders_recreated_count, cycle_locals, pause, fetch_answer, raised,
                  place_calls, prev_failed, prev_fetched, cycle_start, appended, handler_vars,
                  state_copy, standalone_vars >>

\* with state_lock: (the monitor thread)
MonAcquire ==
  /\ CriticalSection(mpc) /= "none"
  /\ state_lock = "free"
  /\ state_lock' = MonitorThread
  /\ mpc' = CriticalSection(mpc)
  /\ UNCHANGED << current_state, ignored_symbols, ignored_items_file, cycle,
                  tracked_orders, tracked_published,
                  orders_recreated_count, cycle_locals, pause, fetch_answer, raised, place_calls,
                  prev_failed, prev_fetched, cycle_start, appended, handler_vars, state_copy, standalone_vars >>

\* monitoring_active = True at the start of the thread
MonInitCS ==
  /\ mpc = "init_cs" /\ state_lock = MonitorThread
  /\ current_state' = [current_state EXCEPT !.monitoring_active = TRUE]
  /\ state_lock' = "free"
  /\ mpc' = "loop_top"
  /\ UNCHANGED << ignored_symbols, ignored_items_file, cycle,
                  tracked_orders, tracked_published,
                  orders_recreated_count, cycle_locals, pause, fetch_answer, raised, place_calls,
                  prev_failed, prev_fetched, cycle_start, appended, handler_vars, state_copy, standalone_vars >>

\* a variant of the outer except that writes True
MonCritCSSetsActive ==
  /\ mpc = "crit_cs" /\ state_lock = MonitorThread
  /\ current_state' = [current_state EXCEPT !.monitoring_active = TRUE]
  /\ state_lock' = "free"
  /\ mpc' = "dead"
  /\ UNCHANGED << ignored_symbols, ignored_items_file, cycle,
                  tracked_orders, tracked_published,
                  orders_recreated_count, cycle_locals, pause, fetch_answer, raised, place_calls,
                  prev_failed, prev_fetched, cycle_start, appended, handler_vars, state_copy, standalone_vars >>

\* the outer except: monitoring_active = False, the thread ends
MonCritCS ==
  /\ mpc = "crit_cs" /\ state_lock = MonitorThread
  /\ current_state' = [current_state EXCEPT !.monitoring_active = FALSE]
  /\ state_lock' = "free"
  /\ mpc' = "dead"
  /\ UNCHANGED << ignored_symbols, ignored_items_file, cycle,
                  tracked_orders, tracked_published,
                  orders_recreated_count, cycle_locals, pause, fetch_answer, raised, place_calls,
                  prev_failed, prev_fetched, cycle_start, appended, handler_vars, state_copy, standalone_vars >>

\* a variant in which a fetch that raises empties the published list
MonFetchClearsList(outcome, budget) ==
  /\ mpc = "loop_top"
  /\ cycle + nreq < budget
  /\ cycle' = cycle + 1
  /\ fetch_answer' = outcome.kind
  /\ raised' = IF outcome.kind = "raise" THEN outcome.exc ELSE ""
  /\ prev_failed' = { place_calls[i].order_id : i \in { j \in DOMAIN place_calls : ~place_calls[j].ok } }
  /\ prev_fetched' = IF fetch_answer = "ok" THEN latest_order_ids
                     ELSE IF fetch_answer = "none" THEN {} ELSE prev_fetched
  /\ place_calls' = <<>>
  /\ cycle_start' = [tracked |-> DOMAIN tracked_orders,
                     recreated |-> current_state.orders_recreated,
                     stored |-> [ id \in DOMAIN tracked_orders |-> FetchedFields(tracked_orders[id]) ]]
  /\ local_ignored_orders' = {}
  /\ current_tracked_ids' = {}
  /\ disappeared_order_ids' = {}
  /\ new_order_ids' = {}
  /\ orders_to_recreate' = <<>>
  /\ recreate_idx' = 1
  /\ net_liq' = 0
  /\ IF outcome.kind = "raise"
       THEN /\ active_orders_list' = <<>>
            /\ latest_order_ids' = {}
            /\ pause' = PauseAfter(outcome.exc)
            /\ mpc' = ExceptTarget(outcome.exc)
       ELSE /\ active_orders_list' = fetch_active_orders(outcome)
            /\ latest_order_ids' = LatestOrderIds(fetch_active_orders(outcome))
            /\ pause' = 0
            /\ mpc' = "ignore_lock"
  /\ current_state' = IF outcome.kind = "raise"
                        THEN [current_state EXCEPT !.active_orders = <<>>]
                        ELSE current_state
  /\ UNCHANGED << ignored_symbols, state_lock, ignored_items_file,
                  tracked_orders, tracked_published,
                  orders_recreated_count, appended, handler_vars, state_copy, standalone_vars >>

\* the top of the loop up to latest_order_ids: the sleep ends, the locals are
\* reset and monitor.fetch_active_orders is called outside the lock
MonFetch(outcome, budget) ==
  /\ mpc = "loop_top"
  /\ cycle + nreq < budget
  /\ cycle' = cycle + 1
  /\ fetch_answer' = outcome.kind
  /\ raised' = IF outcome.kind = "raise" THEN outcome.exc ELSE ""
  /\ prev_failed' = { place_calls[i].order_id : i \in { j \in DOMAIN place_calls : ~place_calls[j].ok } }
  /\ prev_fetched' = IF fetch_answer = "ok" THEN latest_order_ids
                     ELSE IF fetch_answer = "none" THEN {} ELSE prev_fetched
  /\ place_calls' = <<>>
  /\ cycle_start' = [tracked |-> DOMAIN tracked_orders,
                     recreated |-> current_state.orders_recreated,
                     stored |-> [ id \in DOMAIN tracked_orders |-> FetchedFields(tracked_orders[id]) ]]
  /\ local_ignored_orders' = {}
  /\ current_tracked_ids' = {}
  /\ disappeared_order_ids' = {}
  /\ new_order_ids' = {}
  /\ orders_to_recreate' = <<>>
  /\ recreate_idx' = 1
  /\ net_liq' = 0
  /\ IF outcome.kind = "raise"
       THEN /\ active_orders_list' = <<>>
            /\ latest_order_ids' = {}
            /\ pause' = PauseAfter(outcome.exc)
            /\ mpc' = ExceptTarget(outcome.exc)
       ELSE /\ active_orders_list' = fetch_active_orders(outcome)
            /\ latest_order_ids' = LatestOrderIds(fetch_active_orders(outcome))
            /\ pause' = 0
            /\ mpc' = "ignore_lock"
  /\ UNCHANGED << current_state, ignored_symbols, state_lock, ignored_items_file,
                  tracked_orders, tracked_published,
                  orders_recreated_count, appended, handler_vars, state_copy, standalone_vars >>

\* the copy of the ignore set under the lock, then the processing of the
\* fetched list on the thread's own data: diff, classification of the
\* disappeared orders, update of tracked_orders, eviction of the ignored ones
MonReadIgnore ==
  /\ mpc = "ignore_cs" /\ state_lock = MonitorThread
  /\ LET ign == ReadIgnore(current_state)
         T == DOMAIN tracked_orders
         L == latest_order_ids
         dis == DisappearedIds(T, L)
         queue == { id \in dis \cap T :
                      is_order_monitored(id, get_order_symbol(tracked_orders[id]), ign, ignored_symbols) }
         popped == [ id \in T \ dis |-> tracked_orders[id] ]
         updated == UpdateTracked(popped, active_orders_list)
         kept == KeptIds(updated, ign, ignored_symbols)
     IN /\ local_ignored_orders' = ign
        /\ current_tracked_ids' = T
        /\ disappeared_order_ids' = dis
        /\ new_order_ids' = NewIds(T, L)
        /\ \E q \in SeqsOf(queue) :
             orders_to_recreate' = [ i \in 1..Cardinality(queue) |-> tracked_orders[q[i]] ]
        /\ tracked_orders' = [ id \in kept |-> updated[id] ]
  /\ tracked_published' = FALSE
  /\ state_lock' = "free"
  /\ mpc' = "account"
  /\ UNCHANGED << current_state, ignored_symbols, ignored_items_file, cycle,
                  orders_recreated_count, active_orders_list, latest_order_ids, recreate_idx,
                  net_liq, pause, fetch_answer, raised, place_calls, prev_failed, prev_fetched,
                  cycle_start, appended, handler_vars, state_copy, standalone_vars >>

\* get_account_data (which catches its own failures and then reports 0) and
\* analyze_combined_data, which can raise on a malformed position
MonAccount(value, raises) ==
  /\ mpc = "account"
  /\ IF raises
       THEN /\ pause' = PauseAfter("Exception")
            /\ raised' = "Exception"
            /\ mpc' = ExceptTarget("Exception")
            /\ UNCHANGED net_liq
       ELSE /\ net_liq' = value
            /\ mpc' = "publish_lock"
            /\ UNCHANGED << pause, raised >>
  /\ UNCHANGED << current_state, ignored_symbols, state_lock, ignored_items_file, cycle,
                  tracked_orders, tracked_published,
                  orders_recreated_count, active_orders_list, latest_order_ids,
                  local_ignored_orders, current_tracked_ids, disappeared_order_ids,
                  new_order_ids, orders_to_recreate, recreate_idx, fetch_answer, place_calls,
                  prev_failed, prev_fetched, cycle_start, appended, handler_vars, state_copy, standalone_vars >>

\* the publish step: the fetched list replaces active_orders, flagged with the
\* ignore set copied earlier (the flag is written on the dicts tracked_orders
\* holds too); timestamp, positions, counter; history append
MonPublish ==
  /\ mpc = "publish_cs" /\ state_lock = MonitorThread
  /\ current_state' =
       [current_state EXCEPT
          !.active_orders = update_monitoring_status_in_orders(active_orders_list,
                                                               local_ignored_orders, ignored_symbols),
          !.last_updated = cycle,
          !.positions = cycle,
          !.orders_recreated = orders_recreated_count,
          !.net_liq_history = AppendHistory(@, <<cycle, net_liq>>)]
  /\ appended' = Append(appended, <<cycle, net_liq>>)
  /\ state_copy' =
       [ h \in Handlers |->
           IF ~state_copy[h].held THEN state_copy[h]
           ELSE [state_copy[h] EXCEPT
                   !.orders_aliased = FALSE,
                   !.net_liq_history =
                      IF state_copy[h].history_aliased
                        THEN Append(current_state.net_liq_history, <<cycle, net_liq>>) ELSE @,
                   !.history_aliased =
                      @ /\ Len(current_state.net_liq_history) + 1 <= HistoryLimit] ]
  /\ state_lock' = "free"
  /\ mpc' = "recreate"
  /\ tracked_orders' =
       SharedTrackedView(tracked_orders, TRUE,
                         update_monitoring_status_in_orders(active_orders_list,
                                                            local_ignored_orders, ignored_symbols))
  /\ tracked_published' = TRUE
  /\ UNCHANGED << ignored_symbols, ignored_items_file, cycle, orders_recreated_count,
                  cycle_locals, pause, fetch_answer, raised, place_calls, prev_failed,
                  prev_fetched, cycle_start, handler_vars, standalone_vars >>

\* one iteration of the recreation loop: monitor.place_order outside the lock
MonRecreate(response) ==
  /\ mpc = "recreate"
  /\ recreate_idx <= Len(orders_to_recreate)
  /\ LET order_data == orders_to_recreate[recreate_idx]
         result == place_order(order_data, response)
     IN /\ place_calls' = Append(place_calls,
                                 [order_id |-> OrderIdStr(order_data), called |-> result.called,
                                  status_code |-> IF result.called THEN response.status_code ELSE 0,
                                  body |-> IF result.called THEN response.body ELSE "",
                                  ok |-> result.ok,
                                  symbol |-> result.symbol, assetType |-> result.assetType,
                                  source_asset_type |-> order_data.assetType,
                                  ignored_now |-> OrderIdStr(order_data) \in current_state.ignored_orders])
        /\ orders_recreated_count' = RecreatedCountAfter(orders_recreated_count, result.ok)
        /\ mpc' = AfterPlace(result.ok)
  /\ recreate_idx' = recreate_idx + 1
  /\ UNCHANGED << current_state, ignored_symbols, state_lock, ignored_items_file, cycle,
                  tracked_orders, tracked_published,
                  active_orders_list, latest_order_ids, local_ignored_orders,
                  current_tracked_ids, disappeared_order_ids, new_order_ids, orders_to_recreate,
                  net_liq, pause, fetch_answer, raised, prev_failed, prev_fetched, cycle_start, appended,
                  handler_vars, state_copy, standalone_vars >>

\* the counter is written to the shared record right after a successful placement
MonCount ==
  /\ mpc = "count_cs" /\ state_lock = MonitorThread
  /\ current_state' = [current_state EXCEPT !.orders_recreated = orders_recreated_count]
  /\ state_lock' = "free"
  /\ mpc' = "recreate"
  /\ UNCHANGED << ignored_symbols, ignored_items_file, cycle,
                  tracked_orders, tracked_published,
                  orders_recreated_count, cycle_locals, pause, fetch_answer, raised, place_calls,
                  prev_failed, prev_fetched, cycle_start, appended, handler_vars, state_copy, standalone_vars >>

\* the recreation loop is over: time.sleep(1)
MonCycleEnd ==
  /\ mpc = "recreate"
  /\ recreate_idx > Len(orders_to_recreate)
  /\ pause' = PauseNormal
  /\ mpc' = "loop_top"
  /\ UNCHANGED << current_state, ignored_symbols, state_lock, ignored_items_file, cycle,
                  tracked_orders, tracked_published,
                  orders_recreated_count, cycle_locals, fetch_answer, raised, place_calls,
                  prev_failed, prev_fetched, cycle_start, appended, handler_vars, state_copy, standalone_vars >>

\* ------------------------------------------------------ the request handlers
Requests ==
  { [op |-> "get", order_id |-> "", monitor |-> FALSE] }
  \cup { [op |-> "stop", order_id |-> id, monitor |-> FALSE] : id \in RequestIds }
  \cup { [op |-> "toggle", order_id |-> id, monitor |-> b] : id \in RequestIds, b \in BOOLEAN }

\* what the readers that still share the published list object see of it
SharedListView(copies, orders_list) ==
  [ h \in Handlers |->
      IF copies[h].held /\ copies[h].orders_aliased
        THEN [copies[h] EXCEPT !.active_orders = orders_list]
        ELSE copies[h] ]

\* a request reaches a handler thread, which takes state_lock for its first
\* critical section
HBegin(h, req, budget) ==
  /\ hpc[h] = "idle"
  /\ cycle + nreq < budget
  /\ state_lock = "free"
  /\ state_lock' = h
  /\ nreq' = nreq + 1
  /\ hreq' = [hreq EXCEPT ![h] = req]
  /\ hpc' = [hpc EXCEPT ![h] = IF req.op = "get" THEN "get_cs"
                                ELSE IF req.op = "stop" THEN "stop_cs" ELSE "toggle_cs"]
  /\ UNCHANGED << current_state, ignored_symbols, ignored_items_file, monitor_vars, needs_save,
                  current_monitoring_status, ignored_orders_list, state_copy, standalone_vars >>

\* toggle_order_monitoring without a JSON body: answered 400 before any lock
HToggleNoBody(h, budget) ==
  /\ hpc[h] = "idle"
  /\ cycle + nreq < budget
  /\ nreq' = nreq + 1
  /\ UNCHANGED << current_state, ignored_symbols, state_lock, ignored_items_file, monitor_vars,
                  hpc, hreq, needs_save, current_monitoring_status, ignored_orders_list,
                  state_copy, standalone_vars >>

\* with state_lock: in save_ignored_items
HAcquire(h) ==
  /\ CriticalSection(hpc[h]) /= "none"
  /\ state_lock = "free"
  /\ state_lock' = h
  /\ hpc' = [hpc EXCEPT ![h] = CriticalSection(hpc[h])]
  /\ UNCHANGED << current_state, ignored_symbols, ignored_items_file, monitor_vars, hreq,
                  needs_save, current_monitoring_status, ignored_orders_list, nreq, state_copy, standalone_vars >>

\* get_orders under the lock: shallow copy of current_state, isMonitored
\* recomputed on the shared order list from the live ignore set
HGetOrdersCS(h) ==
  /\ hpc[h] = "get_cs" /\ state_lock = h
  /\ LET flagged == update_monitoring_status_in_orders(current_state.active_orders,
                                                       current_state.ignored_orders, ignored_symbols)
     IN /\ current_state' = [current_state EXCEPT !.active_orders = flagged]
        /\ tracked_orders' = SharedTrackedView(tracked_orders, tracked_published, flagged)
        /\ state_copy' =
             [ SharedListView(state_copy, flagged) EXCEPT
                 ![h] = [held |-> TRUE, active_orders |-> flagged, orders_aliased |-> TRUE,
                         net_liq_history |-> current_state.net_liq_history,
                         history_aliased |-> TRUE,
                         orders_recreated |-> current_state.orders_recreated,
                         last_updated |-> current_state.last_updated,
                         monitoring_active |-> current_state.monitoring_active,
                         ignored_orders |-> current_state.ignored_orders,
                         locked_orders |-> flagged,
                         locked_history |-> current_state.net_liq_history] ]
  /\ state_lock' = "free"
  /\ hpc' = [hpc EXCEPT ![h] = "respond"]
  /\ UNCHANGED << ignored_symbols, ignored_items_file, monitor_own_vars, hreq, needs_save,
                  current_monitoring_status, ignored_orders_list, nreq, standalone_vars >>

\* stop_order_monitoring under the lock
HStopCS(h) ==
  /\ hpc[h] = "stop_cs" /\ state_lock = h
  /\ LET id == hreq[h].order_id
         changed == id \notin current_state.ignored_orders
         ign == AddIgnore(current_state.ignored_orders, id)
         flagged == IF changed
                      THEN update_monitoring_status_in_orders(current_state.active_orders, ign,
                                                              ignored_symbols)
                      ELSE current_state.active_orders
     IN /\ current_state' = [current_state EXCEPT !.ignored_orders = ign, !.active_orders = flagged]
        /\ tracked_orders' =
             IF changed THEN SharedTrackedView(tracked_orders, tracked_published, flagged)
             ELSE tracked_orders
        /\ state_copy' = IF changed THEN SharedListView(state_copy, flagged) ELSE state_copy
        /\ needs_save' = [needs_save EXCEPT ![h] = changed]
        /\ hpc' = [hpc EXCEPT ![h] = AfterMutation(changed)]
  /\ state_lock' = "free"
  /\ UNCHANGED << ignored_symbols, ignored_items_file, monitor_own_vars, hreq,
                  current_monitoring_status, ignored_orders_list, nreq, standalone_vars >>

\* toggle_order_monitoring under the lock
HToggleCS(h) ==
  /\ hpc[h] = "toggle_cs" /\ state_lock = h
  /\ LET id == hreq[h].order_id
         should_monitor == hreq[h].monitor
         currently_ignored == id \in current_state.ignored_orders
         changed == (should_monitor /\ currently_ignored) \/ (~should_monitor /\ ~currently_ignored)
         ign == ToggleIgnore(current_state.ignored_orders, id, should_monitor)
         flagged == IF changed
                      THEN update_monitoring_status_in_orders(current_state.active_orders, ign,
                                                              ignored_symbols)
                      ELSE current_state.active_orders
     IN /\ current_state' = [current_state EXCEPT !.ignored_orders = ign, !.active_orders = flagged]
        /\ tracked_orders' =
             IF changed THEN SharedTrackedView(tracked_orders, tracked_published, flagged)
             ELSE tracked_orders
        /\ state_copy' = IF changed THEN SharedListView(state_copy, flagged) ELSE state_copy
        /\ needs_save' = [needs_save EXCEPT ![h] = changed]
        /\ current_monitoring_status' = [current_monitoring_status EXCEPT ![h] = id \notin ign]
        /\ hpc' = [hpc EXCEPT ![h] = AfterMutation(changed)]
  /\ state_lock' = "free"
  /\ UNCHANGED << ignored_symbols, ignored_items_file, monitor_own_vars, hreq,
                  ignored_orders_list, nreq, standalone_vars >>

\* a variant that is still inside the with block when it goes on to write
HSaveCSKeepsLock(h) ==
  /\ hpc[h] = "save_cs" /\ state_lock = h
  /\ ignored_orders_list' = [ignored_orders_list EXCEPT ![h] = current_state.ignored_orders]
  /\ hpc' = [hpc EXCEPT ![h] = "save_io"]
  /\ UNCHANGED << current_state, ignored_symbols, state_lock, ignored_items_file, monitor_vars,
                  hreq, needs_save, current_monitoring_status, nreq, state_copy, standalone_vars >>

\* save_ignored_items under the lock: the set is copied to a list
HSaveCS(h) ==
  /\ hpc[h] = "save_cs" /\ state_lock = h
  /\ ignored_orders_list' = [ignored_orders_list EXCEPT ![h] = current_state.ignored_orders]
  /\ state_lock' = "free"
  /\ hpc' = [hpc EXCEPT ![h] = "save_io"]
  /\ UNCHANGED << current_state, ignored_symbols, ignored_items_file, monitor_vars, hreq,
                  needs_save, current_monitoring_status, nreq, state_copy, standalone_vars >>

\* a variant that undoes the in-memory change when the write fails
HSaveWriteRollback(h, written) ==
  /\ hpc[h] = "save_io"
  /\ ignored_items_file' =
       IF written THEN [valid |-> TRUE, fault |-> "none", orders |-> ignored_orders_list[h],
                        symbols |-> ignored_symbols]
       ELSE ignored_items_file
  /\ current_state' =
       IF written THEN current_state
       ELSE [current_state EXCEPT
               !.ignored_orders = IF hreq[h].order_id \in @ THEN @ \ {hreq[h].order_id}
                                  ELSE @ \cup {hreq[h].order_id}]
  /\ ignored_orders_list' = [ignored_orders_list EXCEPT ![h] = {}]
  /\ hpc' = [hpc EXCEPT ![h] = "respond"]
  /\ UNCHANGED << ignored_symbols, state_lock, monitor_vars, hreq, needs_save,
                  current_monitoring_status, nreq, state_copy, standalone_vars >>

\* save_ignored_items outside the lock: the file is rewritten, or the write
\* fails and is only logged
HSaveWrite(h, written) ==
  /\ hpc[h] = "save_io"
  /\ ignored_items_file' =
       IF written THEN [valid |-> TRUE, fault |-> "none", orders |-> ignored_orders_list[h],
                        symbols |-> ignored_symbols]
       ELSE ignored_items_file
  /\ ignored_orders_list' = [ignored_orders_list EXCEPT ![h] = {}]
  /\ hpc' = [hpc EXCEPT ![h] = "respond"]
  /\ UNCHANGED << current_state, ignored_symbols, state_lock, monitor_vars, hreq, needs_save,
                  current_monitoring_status, nreq, state_copy, standalone_vars >>

\* the handler answers: get_orders serializes its copy, stop and toggle report
\* success, toggle with current_monitoring_status
HRespond(h) ==
  /\ hpc[h] = "respond"
  /\ hpc' = [hpc EXCEPT ![h] = "idle"]
  /\ hreq' = [hreq EXCEPT ![h] = NoRequest]
  /\ needs_save' = [needs_save EXCEPT ![h] = FALSE]
  /\ current_monitoring_status' = [current_monitoring_status EXCEPT ![h] = FALSE]
  /\ state_copy' = [state_copy EXCEPT ![h] = NoCopy]
  /\ UNCHANGED << current_state, ignored_symbols, state_lock, ignored_items_file, monitor_vars,
                  ignored_orders_list, nreq, standalone_vars >>

\* ------------------------------------------------------------ specifications
Start == \E ok \in BOOLEAN : MonInit(ok)

Fetch == \E outcome \in FetchOutcomes : MonFetch(outcome, MaxEvents)

Account == \E value \in NetLiqValues, raises \in BOOLEAN : MonAccount(value, raises)

Recreate == \E response \in BrokerPlaceResponses : MonRecreate(response)

Request == \E h \in LoopHandlers, req \in Requests : HBegin(h, req, MaxEvents)

BadRequest == \E h \in LoopHandlers : HToggleNoBody(h, MaxEvents)

SaveAcquire == \E h \in Handlers : HAcquire(h)

GetOrders == \E h \in Handlers : HGetOrdersCS(h)

StopMonitoring == \E h \in Handlers : HStopCS(h)

ToggleMonitoring == \E h \in Handlers : HToggleCS(h)

SaveCopy == \E h \in Handlers : HSaveCS(h)

SaveWrite == \E h \in Handlers, written \in BOOLEAN : HSaveWrite(h, written)

Respond == \E h \in Handlers : HRespond(h)

Next ==
  \/ Start
  \/ MonAcquire
  \/ MonInitCS
  \/ MonCritCS
  \/ Fetch
  \/ MonReadIgnore
  \/ Account
  \/ MonPublish
  \/ Recreate
  \/ MonCount
  \/ MonCycleEnd
  \/ Request
  \/ BadRequest
  \/ SaveAcquire
  \/ GetOrders
  \/ StopMonitoring
  \/ ToggleMonitoring
  \/ SaveCopy
  \/ SaveWrite
  \/ Respond

Spec == Init /\ [][Next]_vars

\* the poll loop alone, on a broker that always answers the empty list: long
\* runs of publish steps for the history
QuietStart == MonInit(TRUE)

QuietFetch == \E outcome \in QuietFetchOutcomes : MonFetch(outcome, MaxAppends)

QuietAccount == \E value \in NetLiqValues : MonAccount(value, FALSE)

InitHistory == InitWith([valid |-> FALSE, fault |-> "missing", orders |-> {}, symbols |-> {}])

NextHistory ==
  \/ QuietStart
  \/ MonAcquire
  \/ MonInitCS
  \/ QuietFetch
  \/ MonReadIgnore
  \/ QuietAccount
  \/ MonPublish
  \/ MonCycleEnd

SpecHistory == InitHistory /\ [][NextHistory]_vars

\* the request handlers alone, on two threads, before the poll loop has
\* started, from any ignored_items.json
InitStartup == \E file \in StartupFiles : InitWith(file)

ConcurrentRequest == \E h \in Handlers, req \in Requests : HBegin(h, req, MaxRequests)

ConcurrentBadRequest == \E h \in Handlers : HToggleNoBody(h, MaxRequests)

NextHandlers ==
  \/ ConcurrentRequest
  \/ ConcurrentBadRequest
  \/ SaveAcquire
  \/ GetOrders
  \/ StopMonitoring
  \/ ToggleMonitoring
  \/ SaveCopy
  \/ SaveWrite
  \/ Respond

SpecHandlers == InitStartup /\ [][NextHandlers]_vars

\* the same, with each handler thread scheduled fairly: a started request runs
\* to its response
HandlerStep(h) ==
  \/ HAcquire(h)
  \/ HGetOrdersCS(h)
  \/ HStopCS(h)
  \/ HToggleCS(h)
  \/ HSaveCS(h)
  \/ \E written \in BOOLEAN : HSaveWrite(h, written)
  \/ HRespond(h)

SpecRequests ==
  InitStartup /\ [][NextHandlers]_vars /\ WF_vars(HandlerStep("h1")) /\ WF_vars(HandlerStep("h2"))

\* the request handlers over a disk on which every write of save_ignored_items
\* succeeds, started from a file that load_ignored_items could read
SaveWriteOk == \E h \in Handlers : HSaveWrite(h, TRUE)

NextSaves ==
  \/ ConcurrentRequest
  \/ ConcurrentBadRequest
  \/ SaveAcquire
  \/ GetOrders
  \/ StopMonitoring
  \/ ToggleMonitoring
  \/ SaveCopy
  \/ SaveWriteOk
  \/ Respond

SpecSaves == Init /\ [][NextSaves]_vars

\* the poll loop with a dashboard that only reads, against a broker that can
\* report two orders place_order can send; the monitor thread and the reader
\* are scheduled fairly
LoopFetch == \E outcome \in LoopFetchOutcomes : MonFetch(outcome, MaxLoopEvents)

LoopRead == \E h \in LoopHandlers : HBegin(h, [op |-> "get", order_id |-> "", monitor |-> FALSE], MaxLoopEvents)

MonitorStep ==
  \/ Start
  \/ MonAcquire
  \/ MonInitCS
  \/ MonCritCS
  \/ LoopFetch
  \/ MonReadIgnore
  \/ Account
  \/ MonPublish
  \/ Recreate
  \/ MonCount
  \/ MonCycleEnd

ReaderStep ==
  \/ GetOrders
  \/ Respond

NextLoop ==
  \/ MonitorStep
  \/ LoopRead
  \/ ReaderStep

SpecLoop == Init /\ [][NextLoop]_vars /\ WF_vars(MonitorStep) /\ WF_vars(ReaderStep)

\* the poll loop alone against a broker that answers every fetch with a list
\* and can answer a placement in every way
PlaceFetch ==
  \E outcome \in { o \in LoopFetchOutcomes : o.kind = "ok" } : MonFetch(outcome, MaxPlaceCycles)

PlaceAccount == \E value \in NetLiqValues : MonAccount(value, FALSE)

PlaceRecreate == \E response \in AllPlaceResponses : MonRecreate(response)

NextPlace ==
  \/ QuietStart
  \/ MonAcquire
  \/ MonInitCS
  \/ PlaceFetch
  \/ MonReadIgnore
  \/ PlaceAccount
  \/ MonPublish
  \/ PlaceRecreate
  \/ MonCount
  \/ MonCycleEnd

SpecPlace == Init /\ [][NextPlace]_vars

\* the poll loop and one handler thread, against a broker that reports order 1
\* or not and can change the status it reports for it
UpdateFetch == \E outcome \in UpdateFetchOutcomes : MonFetch(outcome, MaxUpdateEvents)

UpdateRequest == \E h \in LoopHandlers, req \in Requests : HBegin(h, req, MaxUpdateEvents)

NextUpdate ==
  \/ QuietStart
  \/ MonAcquire
  \/ MonInitCS
  \/ UpdateFetch
  \/ MonReadIgnore
  \/ PlaceAccount
  \/ MonPublish
  \/ Recreate
  \/ MonCount
  \/ MonCycleEnd
  \/ UpdateRequest
  \/ SaveAcquire
  \/ GetOrders
  \/ StopMonitoring
  \/ ToggleMonitoring
  \/ SaveCopy
  \/ SaveWrite
  \/ Respond

SpecUpdate == Init /\ [][NextUpdate]_vars

\* the poll loop and one handler thread under fair scheduling: a thread that
\* can run does run, and a thread waiting at a with state_lock: gets the lock
\* if it is free again and again
LockFetch == \E outcome \in UpdateFetchOutcomes : MonFetch(outcome, MaxLockEvents)

LockRequest == \E h \in LoopHandlers, req \in Requests : HBegin(h, req, MaxLockEvents)

LockMonitorStep ==
  \/ QuietStart
  \/ MonAcquire
  \/ MonInitCS
  \/ LockFetch
  \/ MonReadIgnore
  \/ PlaceAccount
  \/ MonPublish
  \/ Recreate
  \/ MonCount
  \/ MonCycleEnd

NextLock ==
  \/ LockMonitorStep
  \/ LockRequest
  \/ SaveAcquire
  \/ GetOrders
  \/ StopMonitoring
  \/ ToggleMonitoring
  \/ SaveCopy
  \/ SaveWrite
  \/ Respond

SpecLock ==
  /\ Init /\ [][NextLock]_vars
  /\ WF_vars(LockMonitorStep) /\ SF_vars(MonAcquire)
  /\ \A h \in LoopHandlers : WF_vars(HandlerStep(h)) /\ SF_vars(HAcquire(h))

\* ------------------------------------------------ monitor.py on its own
\* the orderId values of a list: the keys of {order.get('orderId'): order ...}
RawIds(orders) == { orders[i].orderId : i \in DOMAIN orders }

\* the last order of a list with a given orderId
LastWithId(orders, id) ==
  orders[CHOOSE i \in DOMAIN orders :
           /\ orders[i].orderId = id
           /\ \A j \in DOMAIN orders : orders[j].orderId = id => j <= i]

\* the items of {order.get('orderId'): order for order in orders}: a key keeps
\* the place of its first order and the value of its last
RECURSIVE DictItems(_, _, _)
DictItems(orders, rest, seen) ==
  IF rest = <<>> THEN <<>>
  ELSE IF Head(rest).orderId \in seen THEN DictItems(orders, Tail(rest), seen)
  ELSE <<LastWithId(orders, Head(rest).orderId)>>
         \o DictItems(orders, Tail(rest), seen \cup {Head(rest).orderId})

\* order_id not in latest_order_ids
IsGone(order_id, orders) == order_id \notin RawIds(orders)

\* the initial fetch: its orders are tracked before the first sleep
StandaloneStart(outcome) ==
  /\ spc = "start"
  /\ IF outcome.kind = "raise"
       THEN /\ spc' = "ended"
            /\ loop_raised' = outcome.exc
            /\ UNCHANGED order_by_id
       ELSE /\ spc' = "sleep"
            /\ order_by_id' = DictItems(fetch_active_orders(outcome), fetch_active_orders(outcome), {})
            /\ UNCHANGED loop_raised
  /\ UNCHANGED << app_vars, latest_orders, items, loop_calls, loop_cycle, tracked_before >>

\* time.sleep(check_interval) and the fetch of an iteration; an exception
\* leaves the function through its except clause
StandaloneFetch(outcome) ==
  /\ spc = "sleep"
  /\ loop_cycle < MaxStandaloneCycles
  /\ loop_cycle' = loop_cycle + 1
  /\ tracked_before' = RawIds(order_by_id)
  /\ loop_calls' = <<>>
  /\ IF outcome.kind = "raise"
       THEN /\ spc' = "ended"
            /\ loop_raised' = outcome.exc
            /\ UNCHANGED << latest_orders, items >>
       ELSE /\ spc' = "check"
            /\ latest_orders' = fetch_active_orders(outcome)
            /\ items' = order_by_id
            /\ UNCHANGED loop_raised
  /\ UNCHANGED << app_vars, order_by_id >>

\* one pass of the for loop over list(order_by_id.items()): an order missing
\* from the latest fetch is logged and handed to place_order; the log message
\* indexes the first leg, which raises on an empty orderLegCollection
StandaloneCheck(response) ==
  /\ spc = "check"
  /\ items /= <<>>
  /\ LET order_data == Head(items)
     IN IF ~IsGone(order_data.orderId, latest_orders)
          THEN /\ items' = Tail(items)
               /\ UNCHANGED << spc, loop_calls, loop_raised >>
          ELSE IF Len(order_data.legs) = 0
            THEN /\ spc' = "ended"
                 /\ loop_raised' = "IndexError"
                 /\ UNCHANGED << items, loop_calls >>
            ELSE /\ loop_calls' = Append(loop_calls,
                                         [order_id |-> order_data.orderId,
                                          called |-> place_order(order_data, response).called,
                                          ok |-> place_order(order_data, response).ok])
                 /\ items' = Tail(items)
                 /\ UNCHANGED << spc, loop_raised >>
  /\ UNCHANGED << app_vars, order_by_id, latest_orders, loop_cycle, tracked_before >>

\* order_by_id = {...latest_orders}; save_orders logs its own failures
StandaloneUpdate ==
  /\ spc = "check"
  /\ items = <<>>
  /\ order_by_id' = DictItems(latest_orders, latest_orders, {})
  /\ spc' = "sleep"
  /\ UNCHANGED << app_vars, latest_orders, items, loop_calls, loop_cycle, loop_raised,
                  tracked_before >>

InitialFetch == \E outcome \in StandaloneFetchOutcomes : StandaloneStart(outcome)

LoopIteration == \E outcome \in StandaloneFetchOutcomes : StandaloneFetch(outcome)

CheckOrder == \E response \in BrokerPlaceResponses : StandaloneCheck(response)

NextStandalone ==
  \/ InitialFetch
  \/ LoopIteration
  \/ CheckOrder
  \/ StandaloneUpdate

SpecStandalone == InitHistory /\ [][NextStandalone]_vars

\* ------------------------------------------------------------------- claims
\* the identifiers of the orders of a list
IdsOf(orders_list) == { OrderIdStr(orders_list[i]) : i \in DOMAIN orders_list }

\* the current iteration fetched a list and has processed it
Processed ==
  /\ cycle > 0
  /\ fetch_answer \in {"ok", "non_success"}
  /\ mpc \notin {"ignore_lock", "ignore_cs"}

\* the iteration is over: back at the top of the loop, by sleep(1) or by an
\* except clause
CycleEnded == Processed /\ mpc = "loop_top"

\* the current iteration ran to its time.sleep(1)
CycleCompleted == Processed /\ mpc = "loop_top" /\ pause = PauseNormal

\* C8: in every poll cycle the disappeared set is T minus L and the new set is
\* L minus T, for T the identifiers tracked before the cycle and L the
\* identifiers of the latest fetch
C8_DiffCorrect ==
  Processed =>
    \A id \in RequestIds \cup IdsOf(active_orders_list) \cup cycle_start.tracked
                \cup disappeared_order_ids \cup new_order_ids :
      /\ id \in disappeared_order_ids <=>
           (id \in cycle_start.tracked /\ id \notin IdsOf(active_orders_list))
      /\ id \in new_order_ids <=>
           (id \in IdsOf(active_orders_list) /\ id \notin cycle_start.tracked)

C8_Witness ==
  /\ Processed
  /\ disappeared_order_ids = {"1"}
  /\ new_order_ids = {"2"}

\* the number of place_order calls of this iteration for an identifier
Calls(id) == Cardinality({ i \in DOMAIN place_calls : place_calls[i].order_id = id })

C2_RetryNextCycle ==
  \A id \in prev_failed :
    (id \notin IdsOf(active_orders_list) /\ id \notin local_ignored_orders) =>
      /\ Processed => id \in disappeared_order_ids
      /\ CycleCompleted => Calls(id) >= 1

\* C3, as stated: a cycle whose fetch failed (the call raised or the broker
\* answered non-success) leaves the tracked set as it was and places nothing
C3_FetchFailureAborts ==
  fetch_answer \in {"raise", "non_success"} =>
    /\ DOMAIN tracked_orders = cycle_start.tracked
    /\ place_calls = <<>>

\* C4, as stated: no placement request goes to the broker while the order's
\* identifier is in the ignore set
C4_Original ==
  \A i \in DOMAIN place_calls : place_calls[i].called => ~place_calls[i].ignored_now

\* C4, amended: no place_order call of a cycle is for an order whose identifier
\* is in the copy of the ignore set that the cycle took under the lock
C4_NoPlacementForCopiedIgnore ==
  \A i \in DOMAIN place_calls : place_calls[i].order_id \notin local_ignored_orders

C4_Witness ==
  \E i \in DOMAIN place_calls :
    /\ place_calls[i].called
    /\ place_calls[i].ignored_now
    /\ place_calls[i].order_id \notin local_ignored_orders

\* C5: when get_orders leaves its critical section, every order of the list it
\* copied has isMonitored true exactly when its identifier is not in the
\* ignore set of that moment
C5_ReadReflectsLiveIgnore ==
  [][ \A h \in Handlers :
        (hpc[h] = "get_cs" /\ hpc'[h] = "respond") =>
          /\ state_copy'[h].active_orders = current_state'.active_orders
          /\ \A i \in DOMAIN state_copy'[h].active_orders :
               state_copy'[h].active_orders[i].isMonitored
                 = (OrderIdStr(state_copy'[h].active_orders[i]) \notin current_state'.ignored_orders)
    ]_vars

\* order 1 was published as monitored in this cycle, then ignored, then read
C5_Witness ==
  \E h \in Handlers :
    /\ hpc[h] = "respond"
    /\ state_copy[h].held
    /\ state_copy[h].last_updated = cycle
    /\ cycle > 0
    /\ "1" \notin local_ignored_orders
    /\ \E i \in DOMAIN state_copy[h].active_orders :
         /\ state_copy[h].active_orders[i].orderId = 1
         /\ ~state_copy[h].active_orders[i].isMonitored

\* C6: when toggle_order_monitoring leaves its critical section the value it
\* will return equals the requested one and the identifier is in the ignore
\* set exactly when monitoring was switched off; the value is still the
\* requested one when the handler answers
C6_ToggleConsistent ==
  [][ \A h \in Handlers :
        /\ (hpc[h] = "toggle_cs" /\ hpc'[h] /= "toggle_cs") =>
             /\ current_monitoring_status'[h] = hreq[h].monitor
             /\ (hreq[h].order_id \in current_state'.ignored_orders) = ~hreq[h].monitor
        /\ (hpc'[h] = "respond" /\ hreq'[h].op = "toggle") =>
             current_monitoring_status'[h] = hreq'[h].monitor
    ]_vars

\* a toggle to monitored found the identifier ignored by an earlier request,
\* removed it and is about to answer true
C6_Witness ==
  \E h \in Handlers :
    /\ hpc[h] = "respond"
    /\ hreq[h] = [op |-> "toggle", order_id |-> "1", monitor |-> TRUE]
    /\ needs_save[h]
    /\ current_monitoring_status[h]
    /\ "1" \notin current_state.ignored_orders
    /\ ignored_symbols = {}

\* C7: stop (or toggle to unmonitored) leaves the ignore set equal to the old
\* set plus the identifier, hence unchanged when the identifier was already
\* in it; toggle to monitored of an absent identifier leaves the set unchanged
C7_IdempotentIgnore ==
  [][ \A h \in Handlers :
        LET id == hreq[h].order_id
            adds == \/ (hpc[h] = "stop_cs" /\ hpc'[h] /= "stop_cs")
                    \/ (hpc[h] = "toggle_cs" /\ hpc'[h] /= "toggle_cs" /\ ~hreq[h].monitor)
            removes == hpc[h] = "toggle_cs" /\ hpc'[h] /= "toggle_cs" /\ hreq[h].monitor
        IN /\ adds => current_state'.ignored_orders = current_state.ignored_orders \cup {id}
           /\ (adds /\ id \in current_state.ignored_orders) =>
                current_state'.ignored_orders = current_state.ignored_orders
           /\ (removes /\ id \notin current_state.ignored_orders) =>
                current_state'.ignored_orders = current_state.ignored_orders
    ]_vars

\* a second stop for an identifier that an earlier request had added
C7_Witness ==
  \E h \in Handlers :
    /\ hpc[h] = "respond"
    /\ hreq[h].op = "stop"
    /\ ~needs_save[h]
    /\ hreq[h].order_id \in current_state.ignored_orders
    /\ ignored_symbols = {}

\* C9: tracked = {1}, the fetch gives the empty list, 1 is not ignored and its
\* placement succeeds: one place_order call, the published counter one higher
\* than when the cycle began, tracked set empty
C9_DisappearedOrderRecreated ==
  ( /\ CycleCompleted
    /\ cycle_start.tracked = {"1"}
    /\ active_orders_list = <<>>
    /\ "1" \notin local_ignored_orders
    /\ \E i \in DOMAIN place_calls : place_calls[i].ok ) =>
      /\ Len(place_calls) = 1
      /\ current_state.orders_recreated = cycle_start.recreated + 1
      /\ DOMAIN tracked_orders = {}

C9_Witness ==
  /\ CycleCompleted
  /\ cycle_start.tracked = {"1"}
  /\ active_orders_list = <<>>
  /\ Len(place_calls) = 1
  /\ place_calls[1].ok
  /\ cycle_start.recreated = 0
  /\ current_state.orders_recreated = 1
  /\ DOMAIN tracked_orders = {}

\* C10: whenever the lock is free, net_liq_history is the last
\* min(n, HistoryLimit) pairs of the n appended so far, in their order
C10_BoundedHistory ==
  state_lock = "free" =>
    /\ Len(current_state.net_liq_history) <= HistoryLimit
    /\ current_state.net_liq_history = LastN(appended, Min(Len(appended), HistoryLimit))

C10_Witness ==
  /\ state_lock = "free"
  /\ Len(appended) = 150
  /\ Len(current_state.net_liq_history) = HistoryLimit
  /\ current_state.net_liq_history[1] = appended[51]
  /\ current_state.net_liq_history[HistoryLimit] = appended[150]

\* where the monitor thread is while it runs the loop
LoopPcs ==
  { "loop_top", "ignore_lock", "ignore_cs", "account", "publish_lock", "publish_cs",
    "recreate", "count_lock", "count_cs" }

\* C11: once monitoring_active is true it stays true and the monitor thread
\* stays in the loop; after an iteration that ended in an exception of any
\* class, the next iteration eventually starts (unless the run's event budget
\* is spent)
C11_LoopNeverTerminates ==
  /\ [][current_state.monitoring_active =>
          (current_state'.monitoring_active /\ mpc' \in LoopPcs)]_vars
  /\ \A k \in 1..MaxLoopEvents :
       [] ( (cycle = k /\ mpc = "loop_top" /\ raised /= "") =>
              <> (cycle > k \/ cycle + nreq >= MaxLoopEvents) )

\* the first iteration ended in an exception (nothing was published in it) and
\* the second one has published
C11_Witness ==
  /\ current_state.monitoring_active
  /\ cycle = 2
  /\ mpc = "recreate"
  /\ Len(appended) = 1
  /\ appended[1][1] = 2

\* where the monitor thread is after get_schwab_client or get_account_hash raised
InitFailedPcs == { "crit_lock", "crit_cs", "dead" }

\* C12: after a failed initialization the monitor thread never enters the
\* loop; monitoring_active is false, no fetch has been made and no place_order
\* call has been made, from then on
C12_InitFailureStopsMonitoring ==
  [][ /\ mpc \in InitFailedPcs => mpc' \in InitFailedPcs
      /\ mpc' \in InitFailedPcs =>
           /\ ~current_state'.monitoring_active
           /\ cycle' = 0
           /\ fetch_answer' = "none"
           /\ place_calls' = <<>>
           /\ orders_recreated_count' = 0
    ]_vars

\* the thread has ended and the dashboard has served a request since
C12_Witness ==
  /\ mpc = "dead"
  /\ ~current_state.monitoring_active
  /\ nreq > 0
  /\ cycle = 0

\* C13: at the top of the loop the last pause is 60 after an authentication
\* error, 15 after a general API error, 30 after a connection error, 10 after
\* any other exception and 1 after an iteration that ran to its end
C13_PauseByFailureClass ==
  (mpc = "loop_top" /\ cycle > 0) =>
    pause = CASE raised = "AccessTokenError" -> 60
              [] raised = "GeneralError" -> 15
              [] raised = "ConnectionError" -> 30
              [] raised = "Exception" -> 10
              [] OTHER -> 1

C13_Witness ==
  /\ mpc = "loop_top"
  /\ cycle = 2
  /\ raised = "ConnectionError"
  /\ pause = 30

\* C14: a step that calls the broker (fetch, account snapshot, placement) is
\* taken by the monitor thread without state_lock, and a step that writes
\* ignored_items.json is taken by a handler without state_lock and writes the
\* copy that the handler took while it held the lock
C14_NoLockAcrossIO ==
  [][ /\ ( \/ cycle' /= cycle
           \/ (mpc = "account" /\ mpc' /= "account")
           \/ Len(place_calls') > Len(place_calls) ) =>
             (state_lock /= MonitorThread /\ state_lock' /= MonitorThread)
      /\ \A h \in Handlers :
           /\ (hpc[h] = "save_io" /\ hpc'[h] /= "save_io") =>
                /\ state_lock /= h /\ state_lock' /= h
                /\ ignored_items_file' /= ignored_items_file =>
                     ignored_items_file'.orders = ignored_orders_list[h]
           /\ (hpc[h] /= "save_io" /\ hpc'[h] = "save_io") =>
                /\ state_lock = h /\ state_lock' /= h
                /\ ignored_orders_list'[h] = current_state.ignored_orders
      /\ ignored_items_file' /= ignored_items_file =>
           \E h \in Handlers : hpc[h] = "save_io"
    ]_vars

\* a handler is about to write the file while the monitor thread is inside a
\* critical section
C14_Witness ==
  \E h \in Handlers :
    /\ hpc[h] = "save_io"
    /\ state_lock = MonitorThread
    /\ mpc = "publish_cs"

\* C15: when the poll cycle reads the registry, the copy it takes is the
\* ignore set as every completed stop/toggle left it; the orders it queues are
\* the disappeared ones outside that set, and none of the orders it keeps
\* tracking is in it
C15_CycleObservesCompletedMutations ==
  [][ (mpc = "ignore_cs" /\ mpc' = "account") =>
        /\ local_ignored_orders' = current_state.ignored_orders
        /\ IdsOf(orders_to_recreate') =
             { id \in disappeared_order_ids' : id \notin current_state.ignored_orders }
        /\ DOMAIN tracked_orders' \cap current_state.ignored_orders = {}
    ]_vars

\* order 1 was tracked, a request ignored it, and the next cycle, in which it
\* has disappeared, has read the registry and queued nothing
C15_Witness ==
  /\ mpc = "account"
  /\ ignored_symbols = {}
  /\ cycle_start.tracked = {"1"}
  /\ disappeared_order_ids = {"1"}
  /\ local_ignored_orders = {"1"}
  /\ orders_to_recreate = <<>>
  /\ \A h \in Handlers : hpc[h] = "idle"

\* the successful place_order calls of this iteration so far
Placed == Cardinality({ i \in DOMAIN place_calls : place_calls[i].ok })

\* C16: whenever the recreation loop is about to take its next order (or to
\* end), the counter in the shared record already counts every successful
\* placement of this iteration
C16_CounterPublishedPerPlacement ==
  mpc = "recreate" =>
    /\ current_state.orders_recreated = orders_recreated_count
    /\ current_state.orders_recreated = cycle_start.recreated + Placed

\* between the two placements of one iteration a reader has copied the
\* intermediate counter value
C16_Witness ==
  \E h \in Handlers :
    /\ mpc = "recreate"
    /\ Len(orders_to_recreate) = 2
    /\ recreate_idx = 2
    /\ place_calls[1].ok
    /\ state_copy[h].held
    /\ state_copy[h].orders_recreated = cycle_start.recreated + 1

\* C17, as stated (its second sentence): in an iteration whose fetch did not
\* succeed (the call raised or the broker answered non-success) no step
\* replaces the active order list of the shared record
C17_FailedFetchKeepsList ==
  [][ (fetch_answer \in {"raise", "non_success"} /\ cycle' = cycle) =>
        IdsOf(current_state'.active_orders) = IdsOf(current_state.active_orders)
    ]_vars

\* C18, as stated: a place_order call that reached the broker reports success
\* exactly when the answer has a 2xx status, whatever the body is
C18_SuccessIffStatus2xx ==
  \A i \in DOMAIN place_calls :
    place_calls[i].called =>
      (place_calls[i].ok <=> place_calls[i].status_code \in 200..299)

\* C19: after a load that found the file missing, unreadable or corrupt both
\* sets are empty until a request changes them, load_ignored_items has
\* returned normally and the monitor thread has been started
C19_LoadFailureDegradesToEmpty ==
  ignored_items_file.fault /= "none" =>
    /\ mpc /= "not_started"
    /\ ignored_symbols = {}
    /\ nreq = 0 => current_state.ignored_orders = {}

\* a read served after a corrupt file was found at start reports no ignored order
C19_Witness ==
  \E h \in Handlers :
    /\ ignored_items_file.fault = "corrupt"
    /\ mpc = "start"
    /\ nreq = 1
    /\ state_copy[h].held
    /\ state_copy[h].ignored_orders = {}

\* C20: the step in which save_ignored_items writes the file, or fails to,
\* leaves the shared record as the stop/toggle left it and lets the handler
\* answer (toggle with the in-memory status); every later read and every later
\* registry read of the poll loop takes the in-memory set
C20_SaveFailureKeepsMemory ==
  [][ /\ \A h \in Handlers :
           (hpc[h] = "save_io" /\ hpc'[h] /= "save_io") =>
             /\ hpc'[h] = "respond"
             /\ current_state' = current_state
             /\ (hreq[h].order_id \in current_state'.ignored_orders)
                  = (hreq[h].op = "stop" \/ ~hreq[h].monitor)
             /\ hreq[h].op = "toggle" =>
                  current_monitoring_status'[h] = (hreq[h].order_id \notin current_state'.ignored_orders)
      /\ (mpc = "ignore_cs" /\ mpc' = "account") =>
           local_ignored_orders' = current_state.ignored_orders
      /\ \A h \in Handlers :
           (hpc[h] = "get_cs" /\ hpc'[h] = "respond") =>
             state_copy'[h].ignored_orders = current_state.ignored_orders
    ]_vars

\* the write of a stop for order 1 failed (the file found at start was never
\* replaced), the handler has answered, and a later poll cycle has read the
\* identifier from memory
C20_Witness ==
  /\ ignored_items_file.fault = "missing"
  /\ \A h \in Handlers : hpc[h] = "idle"
  /\ current_state.ignored_orders = {"1"}
  /\ mpc = "account"
  /\ local_ignored_orders = {"1"}

\* the instrument symbols detect_asset_type is probed with
SymbolSamples == {"", "SPY", "AAPL", "BRK.B", "3M", "SPX241220C05000000"}

\* the symbol has a digit at some position
HasDigit(symbol) == \E i \in DOMAIN Chars(symbol) : IsDigit(Chars(symbol)[i])

\* C21: detect_asset_type answers OPTION exactly for the symbols that contain a
\* digit and EQUITY for all others, the empty symbol included; every request
\* place_order sends carries that value for its symbol, whatever asset type
\* the source order reported
C21_AssetTypeFromSymbol ==
  /\ \A symbol \in SymbolSamples :
       detect_asset_type(symbol) = IF HasDigit(symbol) THEN "OPTION" ELSE "EQUITY"
  /\ \A i \in DOMAIN place_calls :
       place_calls[i].called =>
         place_calls[i].assetType = IF HasDigit(place_calls[i].symbol) THEN "OPTION" ELSE "EQUITY"

\* one cycle sent an option as OPTION and a fund, reported by the broker as
\* COLLECTIVE_INVESTMENT, as EQUITY
C21_Witness ==
  \E i, j \in DOMAIN place_calls :
    /\ place_calls[i].called /\ place_calls[i].assetType = "OPTION"
    /\ place_calls[j].called /\ place_calls[j].assetType = "EQUITY"
    /\ place_calls[j].source_asset_type = "COLLECTIVE_INVESTMENT"

StoredStatuses ==
  { tracked_orders[id].status : id \in DOMAIN tracked_orders }
  \cup { current_state.active_orders[i].status : i \in DOMAIN current_state.active_orders }
  \cup { active_orders_list[i].status : i \in DOMAIN active_orders_list }

\* C23, as stated: every order in the tracked set or in the store's active
\* list carries, as fetched, a status that is one of WORKING, ACCEPTED,
\* PENDING_ACTIVATION, QUEUED, AWAITING_PARENT_ORDER
C23_Original == StoredStatuses \subseteq ACTIVE_STATUSES

\* C23: every order in the tracked set or in the store's active list carries,
\* as fetched, a status whose upper-case form is one of WORKING, ACCEPTED,
\* PENDING_ACTIVATION, QUEUED, AWAITING_PARENT_ORDER; an order with any other
\* status is neither tracked nor published
C23_OnlyActiveStatusesTracked ==
  \A status \in StoredStatuses : Upper(status) \in ACTIVE_STATUSES

\* order 2, reported with the status queued, is tracked and published
C23_Witness ==
  /\ mpc = "recreate"
  /\ "2" \in DOMAIN tracked_orders
  /\ tracked_orders["2"].status = "queued"
  /\ \E i \in DOMAIN current_state.active_orders :
       current_state.active_orders[i].orderId = 2 /\ current_state.active_orders[i].status = "queued"

C25_Original ==
  Processed =>
    \A id \in cycle_start.tracked \cap IdsOf(active_orders_list) :
      /\ Calls(id) = 0
      /\ id \in DOMAIN tracked_orders
      /\ FetchedFields(tracked_orders[id]) = OrderOf(active_orders_list, id)

\* C25: an order tracked when the cycle began and present in the fetch gets no
\* placement call; once the fetch is processed its tracked entry is the
\* fetched document, unless the identifier is in the ignore set the cycle
\* read, in which case it has no tracked entry
C25_KnownOrderRefreshedNotPlaced ==
  Processed =>
    \A id \in cycle_start.tracked \cap IdsOf(active_orders_list) :
      /\ Calls(id) = 0
      /\ IF id \in local_ignored_orders
           THEN id \notin DOMAIN tracked_orders
           ELSE /\ id \in DOMAIN tracked_orders
                /\ FetchedFields(tracked_orders[id]) = OrderOf(active_orders_list, id)

\* order 1 was stored with status WORKING, the fetch reported it as ACCEPTED,
\* and the cycle ended with the ACCEPTED document stored and no placement call
C25_Witness ==
  /\ CycleCompleted
  /\ "1" \in cycle_start.tracked
  /\ cycle_start.stored["1"].status = "WORKING"
  /\ "1" \in DOMAIN tracked_orders
  /\ tracked_orders["1"].status = "ACCEPTED"
  /\ place_calls = <<>>

\* C26, as stated: when the publish step releases the lock, every order of the
\* store's active list is flagged isMonitored exactly when its identifier is
\* not in the ignore registry at that moment
C26_PublishedFlagsCurrent ==
  [][ (mpc = "publish_cs" /\ mpc' = "recreate") =>
        \A i \in DOMAIN current_state'.active_orders :
          current_state'.active_orders[i].isMonitored
            = (OrderIdStr(current_state'.active_orders[i]) \notin current_state'.ignored_orders)
    ]_vars

\* C27, as stated: what a reader serializes after releasing the lock is the
\* store's content of the moment it held the lock: the order list with its
\* isMonitored flags and the net-liquidation history are as they were then,
\* and the history has at most 100 entries
C27_SnapshotIsPointInTime ==
  \A h \in Handlers :
    state_copy[h].held =>
      /\ state_copy[h].active_orders = state_copy[h].locked_orders
      /\ state_copy[h].net_liq_history = state_copy[h].locked_history
      /\ Len(state_copy[h].net_liq_history) <= HistoryLimit

\* C28: the locked block of a stop or toggle request sends the handler to
\* save_ignored_items exactly when it changed the ignore set and to its
\* response otherwise; a handler sent to the save reaches the write of the
\* file; and the file is written by no handler but one whose request changed
\* the set
C28_SaveExactlyOnChange ==
  /\ [][ \A h \in Handlers :
           (hpc[h] \in {"stop_cs", "toggle_cs"} /\ hpc'[h] /= hpc[h]) =>
             /\ (current_state'.ignored_orders /= current_state.ignored_orders)
                  <=> (hpc'[h] = "save_lock")
             /\ (current_state'.ignored_orders = current_state.ignored_orders)
                  <=> (hpc'[h] = "respond")
             /\ needs_save'[h] = (current_state'.ignored_orders /= current_state.ignored_orders)
       ]_vars
  /\ [][ ignored_items_file' /= ignored_items_file =>
           \E h \in Handlers : hpc[h] = "save_io" /\ needs_save[h] ]_vars
  /\ \A h \in Handlers : (hpc[h] = "save_lock") ~> (hpc[h] = "save_io")
  /\ \A h \in Handlers : (hpc[h] = "save_io") ~> (hpc[h] = "respond")

\* a toggle that resumed monitoring of order 1 is about to write the file,
\* while a second toggle that found order 1 already monitored answers without
\* a save
C28_Witness ==
  \E h, g \in Handlers :
    /\ hpc[h] = "save_io" /\ needs_save[h]
    /\ hreq[h].op = "toggle" /\ hreq[h].monitor
    /\ hpc[g] = "respond" /\ ~needs_save[g]
    /\ hreq[g].op = "toggle" /\ hreq[g].monitor
    /\ "1" \notin current_state.ignored_orders
    /\ ignored_items_file.orders = {"1"}

\* C29: the iteration in which the order fetch raises is one step of the
\* monitor thread, from the top of the loop back to it, and that step leaves
\* the whole shared record (active list, timestamp, positions, counter,
\* history) as it was and appends no history entry
C29_AbortedFetchWritesNothing ==
  [][ (mpc = "loop_top" /\ cycle' = cycle + 1 /\ fetch_answer' = "raise") =>
        /\ current_state' = current_state
        /\ appended' = appended
        /\ mpc' = "loop_top"
        /\ state_lock' = state_lock
    ]_vars

\* the second fetch raised after the first cycle had published two orders:
\* the store still holds them, with the first cycle's timestamp and history
C29_Witness ==
  /\ mpc = "loop_top"
  /\ cycle = 2
  /\ fetch_answer = "raise"
  /\ Len(current_state.active_orders) = 2
  /\ current_state.last_updated = 1
  /\ Len(current_state.net_liq_history) = 1

\* C30, as stated: no step of a request handler changes the tracked set,
\* neither its identifiers nor the stored content of a tracked order
C30_HandlersLeaveTrackedSet ==
  [][ (hpc' /= hpc) => tracked_orders' = tracked_orders ]_vars

\* C31: at the end of every completed poll cycle the tracked identifiers are
\* the identifiers of that cycle's fetch minus the identifiers of the ignore
\* set copy the cycle read under the lock; so none of them was ignored in that
\* copy and none is absent from the fetch
C31_TrackedIsFetchMinusIgnored ==
  CycleCompleted =>
    /\ DOMAIN tracked_orders = LatestOrderIds(active_orders_list) \ local_ignored_orders
    /\ DOMAIN tracked_orders \cap local_ignored_orders = {}
    /\ DOMAIN tracked_orders \subseteq IdsOf(active_orders_list)

\* a completed cycle fetched both orders while order 1 was ignored and tracks
\* order 2 alone
C31_Witness ==
  /\ CycleCompleted
  /\ IdsOf(active_orders_list) = {"1", "2"}
  /\ local_ignored_orders = {"1"}
  /\ DOMAIN tracked_orders = {"2"}

\* C32, as stated: with every write of save_ignored_items succeeding, whenever
\* no request is in flight the orders of ignored_items.json are the ignore set
\* of the shared record
C32_DurableCopyMatchesMemory ==
  (\A h \in Handlers : hpc[h] = "idle") =>
    ignored_items_file.orders = current_state.ignored_orders

\* where a thread waits for state_lock, and where it holds it
LockWaitPcs == { "init_lock", "crit_lock", "ignore_lock", "publish_lock", "count_lock", "save_lock" }

LockHeldPcs == { "init_cs", "crit_cs", "ignore_cs", "publish_cs", "count_cs",
                 "get_cs", "stop_cs", "toggle_cs", "save_cs" }

\* C33: a thread that is about to acquire state_lock does not hold it; the
\* holder is inside a with block whose next step it can take without any other
\* thread, and that step releases the lock; and under fair scheduling the poll
\* loop and every handler waiting for the lock get it
C33_LockDeadlockFree ==
  /\ [] ( /\ mpc \in LockWaitPcs => state_lock /= MonitorThread
          /\ state_lock = MonitorThread => (mpc \in LockHeldPcs /\ ENABLED LockMonitorStep)
          /\ \A h \in LoopHandlers :
               /\ hpc[h] \in LockWaitPcs \cup {"idle"} => state_lock /= h
               /\ state_lock = h => (hpc[h] \in LockHeldPcs /\ ENABLED HandlerStep(h)) )
  /\ [][ /\ (state_lock = MonitorThread /\ mpc' /= mpc) => state_lock' = "free"
         /\ \A h \in LoopHandlers : (state_lock = h /\ hpc'[h] /= hpc[h]) => state_lock' = "free"
     ]_vars
  /\ \A at \in LockWaitPcs : (mpc = at) ~> (mpc = CriticalSection(at))
  /\ \A h \in LoopHandlers : (hpc[h] = "save_lock") ~> (hpc[h] = "save_cs")

\* a handler waits to copy the ignore set for its save while the poll loop
\* holds the lock to publish
C33_Witness ==
  \E h \in LoopHandlers :
    /\ hpc[h] = "save_lock"
    /\ state_lock = MonitorThread
    /\ mpc = "publish_cs"

\* C34: no step lowers the recreation counter of the shared record, and only
\* the poll loop's publish and count blocks write it; it starts at 0, and
\* whenever an iteration is over it is its value at the start of the iteration
\* plus the number of place_order calls of the iteration that returned
\* success, hence the number of successful calls since the thread started
C34_CounterCountsSuccesses ==
  /\ [][ /\ current_state'.orders_recreated >= current_state.orders_recreated
         /\ current_state'.orders_recreated /= current_state.orders_recreated =>
              (mpc = "count_cs" /\ current_state'.orders_recreated = current_state.orders_recreated + 1)
     ]_vars
  /\ [] ( cycle = 0 => current_state.orders_recreated = 0 )
  /\ [] ( mpc = "loop_top" =>
            /\ current_state.orders_recreated = orders_recreated_count
            /\ cycle > 0 => current_state.orders_recreated = cycle_start.recreated + Placed )

\* an earlier iteration had one success; this one made two calls, one of them
\* successful, and ends with the counter at 2
C34_Witness ==
  /\ mpc = "loop_top"
  /\ cycle >= 2
  /\ cycle_start.recreated = 1
  /\ Len(place_calls) = 2
  /\ Placed = 1
  /\ current_state.orders_recreated = 2

C36_FirstCyclePlacesNothing ==
  /\ cycle = 0 => (tracked_orders = << >> /\ place_calls = <<>>)
  /\ cycle = 1 =>
       /\ cycle_start.tracked = {}
       /\ disappeared_order_ids = {}
       /\ orders_to_recreate = <<>>
       /\ place_calls = <<>>

\* the first cycle fetched two orders, tracks them and has completed without
\* a place_order call
C36_Witness ==
  /\ cycle = 1
  /\ CycleCompleted
  /\ DOMAIN tracked_orders = {"1", "2"}
  /\ place_calls = <<>>

\* the place_order calls of this iteration of monitor_orders_loop for an orderId
LoopCalls(id) == Cardinality({ i \in DOMAIN loop_calls : loop_calls[i].order_id = id })

\* an iteration of monitor_orders_loop whose fetch returned is over: the loop
\* sleeps again, or an exception raised inside the for loop ended the function
IterationOver ==
  /\ loop_cycle > 0
  /\ \/ spc = "sleep"
     \/ spc = "ended" /\ loop_raised = "IndexError"

\* C37, as stated: when an iteration of monitor_orders_loop is over, place_order
\* was called exactly once for every orderId that was tracked and is missing
\* from the latest fetch and for no other, and the tracked orders are those of
\* the latest fetch, whatever the calls returned
C37_StandaloneCycle ==
  IterationOver =>
    /\ \A id \in tracked_before \ RawIds(latest_orders) : LoopCalls(id) = 1
    /\ \A id \in tracked_before \cap RawIds(latest_orders) : LoopCalls(id) = 0
    /\ RawIds(order_by_id) = RawIds(latest_orders)

\* the order the i-th place_order call of this iteration was made for
SourceOrder(i) == orders_to_recreate[i]

\* C38: a place_order call reaches the broker only if the first leg of the
\* source order carries a non-empty symbol; for an order without legs, also
\* when its top-level instrument has a symbol, no request is sent and the call
\* returns False; the same for a first leg whose instrument has no symbol
C38_NoRequestWithoutLegSymbol ==
  \A i \in DOMAIN place_calls :
    /\ place_calls[i].called =>
         (Len(SourceOrder(i).legs) > 0 /\ SourceOrder(i).legs[1] /= "")
    /\ Len(SourceOrder(i).legs) = 0 => (~place_calls[i].called /\ ~place_calls[i].ok)
    /\ place_calls[i].called => place_calls[i].symbol = SourceOrder(i).legs[1]
    /\ \A order \in {DocSpx, DocAapl, DocBlankLeg}, response \in BrokerPlaceResponses :
         place_order(order, response).called <=>
           (Len(order.legs) > 0 /\ order.legs[1] /= "")

\* place_order was called for the disappeared order 2, which has no legs and
\* the symbol AAPL on its top-level instrument: nothing was sent
C38_Witness ==
  \E i \in DOMAIN place_calls :
    /\ SourceOrder(i).legs = <<>>
    /\ get_order_symbol(SourceOrder(i)) = "AAPL"
    /\ place_calls[i].order_id = "2"
    /\ ~place_calls[i].called
    /\ ~place_calls[i].ok

====
